---- MODULE Spec2Model ----
(***************************************************************************)
(* The section assembler of backend.py (extract_sections_visual) and the   *)
(* helpers it calls, modelled over lines that are sequences of one-        *)
(* character strings, so that the regular expressions, the length bound,   *)
(* the caption test and the title formatting are computed as the code      *)
(* computes them.                                                          *)
(***************************************************************************)
EXTENDS Integers, Sequences, FiniteSets, TLC

\* all_lines .. expected_number are the locals of extract_sections_visual; pc
\* is "scan" inside the while loop and "done" once sections is returned.
\* opened is a record of the scan kept beside the program state: one entry per
\* section opened so far (the preamble first), with the cursor position and
\* the number of lines of its header, how the header was detected, its title,
\* and the cursor positions of the lines added to its content.
VARIABLES all_lines, i, sections, current_section, expected_number, pc, opened

\* helper is the call of one helper function on its own: the function, its
\* argument, and once it has returned, what it returned. parser holds the
\* locals of parse_pdf_text (section_parser.py) and ui those of the batch
\* loop of UI.py. Each is [pc |-> "off"] in the runs of the other parts.
VARIABLES helper, parser, ui

scan_vars == <<all_lines, i, sections, current_section, expected_number, pc, opened>>

vars == <<all_lines, i, sections, current_section, expected_number, pc, opened,
          helper, parser, ui>>

\* ---------------------------------------------------------------- bounds
\* Longest line list the scan is run on, over the whole vocabulary.
MaxLines == 3

\* Longest line list the scan is run on, over the core vocabulary.
MaxLongLines == 4

\* ------------------------------------------------------------ characters
LowerLetters == <<"a", "b", "c", "d", "e", "f", "g", "h", "i", "j", "k", "l", "m", "n", "o", "p", "q", "r", "s", "t", "u", "v", "w", "x", "y", "z">>

UpperLetters == <<"A", "B", "C", "D", "E", "F", "G", "H", "I", "J", "K", "L", "M", "N", "O", "P", "Q", "R", "S", "T", "U", "V", "W", "X", "Y", "Z">>

Digits == <<"0", "1", "2", "3", "4", "5", "6", "7", "8", "9">>

\* An optional value: <<>> is Python's None, <<v>> is the value v.
None == <<>>

\* The value of helper, parser or ui in a run they take no part in.
Off == [pc |-> "off"]

Range(s) == {s[k] : k \in 1..Len(s)}

IndexIn(c, s) == CHOOSE k \in 1..Len(s) : s[k] = c

\* str.upper() on one character.
UpperChar(c) == IF c \in Range(LowerLetters) THEN UpperLetters[IndexIn(c, LowerLetters)] ELSE c

\* str.upper()
Upper(s) == [k \in 1..Len(s) |-> UpperChar(s[k])]

IsSpace(c) == c = " "

\* str.isupper() on one character / the class [A-Z].
IsUpperChar(c) == c \in Range(UpperLetters)

\* the class \d, and str.isdigit() on one character.
IsDigitChar(c) == c \in Range(Digits)

\* the class [IVXLCDMivxlcdm]
IsRomanChar(c) == UpperChar(c) \in {"I", "V", "X", "L", "C", "D", "M"}

Min(S) == CHOOSE k \in S : \A m \in S : k <= m

Max(S) == CHOOSE k \in S : \A m \in S : k >= m

\* s between the first and the last of the positions keep.
Between(s, keep) == IF keep = {} THEN <<>> ELSE SubSeq(s, Min(keep), Max(keep))

\* str.strip()
Strip(s) == Between(s, {k \in 1..Len(s) : ~IsSpace(s[k])})

\* str.startswith(prefix)
StartsWith(s, prefix) == Len(prefix) <= Len(s) /\ SubSeq(s, 1, Len(prefix)) = prefix

\* str.replace(c, "") for a one-character c.
RemoveChar(s, c) == SelectSeq(s, LAMBDA x : x # c)

\* --------------------------------------------------------- configuration
HEADER_MAP ==
       (<<"A", "B", "S", "T", "R", "A", "C", "T">> :> <<"A", "B", "S", "T", "R", "A", "C", "T">>)
    @@ (<<"I", "N", "T", "R", "O", "D", "U", "C", "T", "I", "O", "N">> :> <<"I", "N", "T", "R", "O", "D", "U", "C", "T", "I", "O", "N">>)
    @@ (<<"R", "E", "L", "A", "T", "E", "D", " ", "W", "O", "R", "K">> :> <<"R", "E", "L", "A", "T", "E", "D", " ", "W", "O", "R", "K">>)
    @@ (<<"L", "I", "T", "E", "R", "A", "T", "U", "R", "E", " ", "R", "E", "V", "I", "E", "W">> :> <<"R", "E", "L", "A", "T", "E", "D", " ", "W", "O", "R", "K">>)
    @@ (<<"B", "A", "C", "K", "G", "R", "O", "U", "N", "D">> :> <<"R", "E", "L", "A", "T", "E", "D", " ", "W", "O", "R", "K">>)
    @@ (<<"R", "E", "F", "E", "R", "E", "N", "C", "E", "S">> :> <<"R", "E", "F", "E", "R", "E", "N", "C", "E", "S">>)
    @@ (<<"B", "I", "B", "L", "I", "O", "G", "R", "A", "P", "H", "Y">> :> <<"R", "E", "F", "E", "R", "E", "N", "C", "E", "S">>)
    @@ (<<"A", "C", "K", "N", "O", "W", "L", "E", "D", "G", "M", "E", "N", "T">> :> <<"A", "C", "K", "N", "O", "W", "L", "E", "D", "G", "M", "E", "N", "T">>)
    @@ (<<"A", "C", "K", "N", "O", "W", "L", "E", "D", "G", "E", "M", "E", "N", "T", "S">> :> <<"A", "C", "K", "N", "O", "W", "L", "E", "D", "G", "M", "E", "N", "T">>)
    @@ (<<"A", "P", "P", "E", "N", "D", "I", "X">> :> <<"A", "P", "P", "E", "N", "D", "I", "X">>)
    @@ (<<"A", "P", "P", "E", "N", "D", "I", "C", "E", "S">> :> <<"A", "P", "P", "E", "N", "D", "I", "X">>)
    @@ (<<"D", "E", "C", "L", "A", "R", "A", "T", "I", "O", "N">> :> <<"D", "E", "C", "L", "A", "R", "A", "T", "I", "O", "N">>)

IGNORE_CAPTION_KEYWORDS ==
    << <<"F", "I", "G", "U", "R", "E">>,
       <<"F", "I", "G">>,
       <<"F", "I", "G", ".">>,
       <<"T", "A", "B", "L", "E">>,
       <<"T", "A", "B">>,
       <<"T", "A", "B", ".">>,
       <<"I", "M", "A", "G", "E">>,
       <<"I", "M", "G">>,
       <<"I", "M", "G", ".">>,
       <<"C", "H", "A", "R", "T">>,
       <<"G", "R", "A", "P", "H">>,
       <<"D", "I", "A", "G", "R", "A", "M">>,
       <<"E", "Q">>,
       <<"E", "Q", "U", "A", "T", "I", "O", "N">> >>

\* --------------------------------------------------------------- inputs
LnIntro == <<"1", ".", " ", "I", "n", "t", "r", "o">>

LnRomanData == <<"I", "I", " ", "D", "a", "t", "a">>

LnResults == <<"3", ".", " ", "R", "e", "s", "u", "l", "t", "s">>

LnOne == <<"1">>

LnTwoDot == <<"2", ".">>

LnEvaluation == <<"E", "v", "a", "l", "u", "a", "t", "i", "o", "n">>

LnBody == <<"w", "e", " ", "r", "a", "n", " ", "t", "e", "s", "t", "s">>

LnReferences == <<"R", "E", "F", "E", "R", "E", "N", "C", "E", "S">>

LnBackground == <<"B", "a", "c", "k", "g", "r", "o", "u", "n", "d", ":">>

LnCaption == <<"1", ".", " ", "F", "i", "g", "u", "r", "e", " ", "3", " ", "s", "h", "o", "w", "s", " ", "i", "t">>

LnTables == <<"T", "a", "b", "l", "e", "s", " ", "o", "f", " ", "d", "a", "t", "a">>

LnLong30 == <<"1", ".", " ", "A", " ", "l", "o", "n", "g", " ", "t", "i", "t", "l", "e", " ", "o", "f", " ", "t", "h", "i", "r", "t", "y", " ", "l", "e", "t", "t", "e", "r", "s">>

LnLong29 == <<"1", ".", " ", "A", " ", "l", "o", "n", "g", " ", "t", "i", "t", "l", "e", " ", "o", "f", " ", "t", "h", "i", "r", "t", "y", " ", "l", "e", "t", "t", "e", "r">>

LnPhrase30 == <<"A", " ", "l", "o", "n", "g", " ", "t", "i", "t", "l", "e", " ", "o", "f", " ", "t", "h", "i", "r", "t", "y", " ", "l", "e", "t", "t", "e", "r", "s">>

\* The lines a document is drawn from: trimmed and non-empty, as the code's
\* line collection leaves them.
Vocabulary ==
    {LnIntro, LnRomanData, LnResults, LnOne, LnTwoDot, LnEvaluation, LnBody,
     LnReferences, LnBackground, LnCaption, LnTables, LnLong30, LnLong29, LnPhrase30}

\* Every line list of at most MaxLines lines of the vocabulary.
InputLists == UNION {[1..n -> Vocabulary] : n \in 0..MaxLines}

\* The lines that decide the numbering: headers numbered 1, 2 and 3, a bare
\* numeral, a short capitalised line, a body line and a mapped title.
CoreVocabulary ==
    {LnIntro, LnRomanData, LnResults, LnOne, LnEvaluation, LnBody, LnReferences,
     LnBackground}

\* Every line list of at most MaxLongLines lines of the core vocabulary.
LongInputLists == UNION {[1..n -> CoreVocabulary] : n \in 0..MaxLongLines}

\* -------------------------------------------------------------- helpers
\* The phrase length bound of is_valid_numbered_header and of the split-line test.
MaxPhraseLen == 30

roman_map(c) ==
    CASE c = "I" -> 1 [] c = "V" -> 5 [] c = "X" -> 10 [] c = "L" -> 50
      [] c = "C" -> 100 [] c = "D" -> 500 [] c = "M" -> 1000

\* One iteration of the loop of roman_to_int: st is (ok, total, prev_value),
\* ok = FALSE once a character outside roman_map was met (return None).
RomanStep(st, char) ==
    IF ~st.ok \/ ~(char \in {"I", "V", "X", "L", "C", "D", "M"})
    THEN [ok |-> FALSE, total |-> 0, prev_value |-> 0]
    ELSE IF roman_map(char) < st.prev_value
    THEN [ok |-> TRUE, total |-> st.total - roman_map(char), prev_value |-> roman_map(char)]
    ELSE [ok |-> TRUE, total |-> st.total + roman_map(char), prev_value |-> roman_map(char)]

\* The loop over reversed(s): the state after the last k characters were read.
RomanLoop(s) ==
    LET loop[k \in 0..Len(s)] ==
            IF k = 0 THEN [ok |-> TRUE, total |-> 0, prev_value |-> 0]
            ELSE RomanStep(loop[k - 1], s[Len(s) - k + 1])
    IN  loop[Len(s)]

RomanResult(st) == IF st.ok THEN <<st.total>> ELSE None

roman_to_int(s) == RomanResult(RomanLoop(Upper(s)))

\* int(s) for a string of decimal digits.
DecimalValue(s) ==
    LET val[k \in 0..Len(s)] ==
            IF k = 0 THEN 0 ELSE 10 * val[k - 1] + (IndexIn(s[k], Digits) - 1)
    IN  val[Len(s)]

\* str.isdigit()
IsDigitString(s) == s # <<>> /\ \A k \in 1..Len(s) : IsDigitChar(s[k])

\* The number of leading characters of text in the class [IVXLCDMivxlcdm]
\* (roman = TRUE) or \d (roman = FALSE).
LeadingRun(text, roman) ==
    Min({k \in 1..(Len(text) + 1) :
            \/ k = Len(text) + 1
            \/ IF roman THEN ~IsRomanChar(text[k]) ELSE ~IsDigitChar(text[k])}) - 1

\* The length of the text matched by ([IVXLCDMivxlcdm]+|\d+) at the start of
\* text, 0 when it does not match. The two classes are disjoint and what has
\* to follow the token is in neither, so only the longest run can match.
NumeralRun(text) ==
    IF text = <<>> THEN 0
    ELSE IF IsRomanChar(text[1]) THEN LeadingRun(text, TRUE)
    ELSE LeadingRun(text, FALSE)

\* The length of the text matched by (\.?) after the first n characters.
DotRun(text, n) == IF n < Len(text) /\ text[n + 1] = "." THEN 1 ELSE 0

\* The number of whitespace characters of text after the first d characters.
SpaceRun(text, d) ==
    Min({k \in (d + 1)..(Len(text) + 1) : k = Len(text) + 1 \/ ~IsSpace(text[k])}) - (d + 1)

\* The match of \s+([A-Z].*)$ after the numeral (n characters) and the
\* optional dot (d characters read so far), the phrase starting at start.
MatchPhrase(text, n, d, start) ==
    IF n > 0 /\ start > d + 1 /\ start <= Len(text) /\ IsUpperChar(text[start])
    THEN [num |-> SubSeq(text, 1, n), phrase |-> Strip(SubSeq(text, start, Len(text)))]
    ELSE [num |-> None, phrase |-> None]

MatchSpaces(text, n, d) == MatchPhrase(text, n, d, d + SpaceRun(text, d) + 1)

MatchNumeral(text, n) == MatchSpaces(text, n, n + DotRun(text, n))

\* re: ^([IVXLCDMivxlcdm]+|\d+)(\.?)\s+([A-Z].*)$ ; returns (group 1, group 3
\* stripped), or (None, None).
parse_header_components(text) == MatchNumeral(text, NumeralRun(text))

MatchBare(text, n) ==
    IF n > 0 /\ n + DotRun(text, n) = Len(text) THEN SubSeq(text, 1, n) ELSE None

\* re: ^([IVXLCDMivxlcdm]+|\d+)(\.?)$ ; returns group 1, or None.
BareNumeral(text) == MatchBare(text, NumeralRun(text))

StartsWithCaption(clean_phrase) ==
    \E k \in 1..Len(IGNORE_CAPTION_KEYWORDS) :
        StartsWith(clean_phrase, IGNORE_CAPTION_KEYWORDS[k])

\* The caption test of is_valid_numbered_header.
IsCaptionPhrase(phrase) == StartsWithCaption(Strip(Upper(phrase)))

\* The value of a numeral token: int() of a digit string, roman_to_int otherwise.
ResolveNumeral(num_str) ==
    IF IsDigitString(num_str) THEN <<DecimalValue(num_str)>> ELSE roman_to_int(num_str)

\* if val is None: return False ... return current_val == expected_number
ValueIs(val, expected) == IF val = None THEN FALSE ELSE val[1] = expected

\* is_valid_numbered_header without the comparison with expected_number: any
\* numeral that resolves is taken.
is_valid_numbered_header_AnyNumber(num_str, phrase, expected) ==
    IF Len(phrase) >= MaxPhraseLen THEN FALSE
    ELSE IF IsCaptionPhrase(phrase) THEN FALSE
    ELSE ResolveNumeral(num_str) # None

\* is_valid_numbered_header with the length test off by one (> for >=).
is_valid_numbered_header_LongerBound(num_str, phrase, expected) ==
    IF Len(phrase) > MaxPhraseLen THEN FALSE
    ELSE IF IsCaptionPhrase(phrase) THEN FALSE
    ELSE ValueIs(ResolveNumeral(num_str), expected)

\* is_valid_numbered_header without the caption test.
is_valid_numbered_header_NoCaptionTest(num_str, phrase, expected) ==
    IF Len(phrase) >= MaxPhraseLen THEN FALSE
    ELSE ValueIs(ResolveNumeral(num_str), expected)

is_valid_numbered_header(num_str, phrase, expected) ==
    IF Len(phrase) >= MaxPhraseLen THEN FALSE
    ELSE IF IsCaptionPhrase(phrase) THEN FALSE
    ELSE ValueIs(ResolveNumeral(num_str), expected)

LookupTitle(clean_upper) ==
    IF clean_upper \in DOMAIN HEADER_MAP THEN HEADER_MAP[clean_upper] ELSE None

get_mapped_title(text) == LookupTitle(RemoveChar(Strip(Upper(text)), ":"))

\* ------------------------------------------------------------ the scan
PreambleTitle == <<"P", "r", "e", "a", "m", "b", "l", "e", "/", "I", "n", "t", "r", "o", "d", "u", "c", "t", "i", "o", "n">>

\* f"{num_str}. {phrase}"
NumberedTitle(num_str, phrase) == num_str \o <<".", " ">> \o phrase

\* The outcome of header detection in one loop iteration. skip is the extra
\* cursor advance of the split-line branch (i += 1).
Header(is_numbered, num_str, phrase, skip) ==
    [detected_header |-> TRUE, is_numbered |-> is_numbered, num_str |-> num_str,
     phrase |-> phrase, skip |-> skip]

NoHeader ==
    [detected_header |-> FALSE, is_numbered |-> FALSE, num_str |-> <<>>,
     phrase |-> <<>>, skip |-> 0]

\* if not detected_header: mapped_title = get_mapped_title(line) ...
ClassifyMapped(mapped_title) ==
    IF mapped_title # None THEN Header(FALSE, <<>>, mapped_title, 0) ELSE NoHeader

\* The tests of the split-line branch on the bare numeral and the next line.
SplitOk(potential_num, next_line, expected) ==
    /\ Len(next_line) < MaxPhraseLen
    /\ next_line # <<>>
    /\ IsUpperChar(next_line[1])
    /\ is_valid_numbered_header(potential_num, next_line, expected)

\* ClassifySplit without the extra cursor advance of the split-line branch.
ClassifySplit_NoSkip(lines, idx, expected, potential_num) ==
    IF /\ idx + 1 < Len(lines)
       /\ potential_num # None
       /\ SplitOk(potential_num, Strip(lines[idx + 2]), expected)
    THEN Header(TRUE, potential_num, Strip(lines[idx + 2]), 0)
    ELSE ClassifyMapped(get_mapped_title(lines[idx + 1]))

\* elif i + 1 < len(all_lines): the split-line branch, then the mapped title.
ClassifySplit(lines, idx, expected, potential_num) ==
    IF /\ idx + 1 < Len(lines)
       /\ potential_num # None
       /\ SplitOk(potential_num, Strip(lines[idx + 2]), expected)
    THEN Header(TRUE, potential_num, Strip(lines[idx + 2]), 1)
    ELSE ClassifyMapped(get_mapped_title(lines[idx + 1]))

\* if p_num and is_valid_numbered_header(p_num, p_phrase, expected_number)
ClassifySingle(lines, idx, expected, p) ==
    IF p.num # None /\ is_valid_numbered_header(p.num, p.phrase, expected)
    THEN Header(TRUE, p.num, p.phrase, 0)
    ELSE ClassifySplit(lines, idx, expected, BareNumeral(lines[idx + 1]))

\* Header detection of one loop iteration at cursor idx (0-based), in the
\* code's order: single-line numbered, split-line numbered, mapped title.
Classify(lines, idx, expected) ==
    ClassifySingle(lines, idx, expected, parse_header_components(lines[idx + 1]))

\* CloseSection without the test for blank content.
CloseSection_Always(secs, cur) == Append(secs, cur)

\* CloseSection keeping one section per title: the content of a section whose
\* title is already in the list replaces the content stored under that title.
CloseSection_OnePerTitle(secs, cur) ==
    IF Strip(cur.content) = <<>> THEN secs
    ELSE IF \E p \in 1..Len(secs) : secs[p].title = cur.title
         THEN [p \in 1..Len(secs) |->
                  IF secs[p].title = cur.title THEN cur ELSE secs[p]]
         ELSE Append(secs, cur)

\* if current_section["content"].strip(): sections.append(current_section)
CloseSection(secs, cur) ==
    IF Strip(cur.content) # <<>> THEN Append(secs, cur) ELSE secs

\* The title of the section a detected header opens.
OpenedTitle(c) ==
    IF c.is_numbered THEN NumberedTitle(c.num_str, c.phrase) ELSE c.phrase

\* NextExpected with the counter advanced by every detected header.
NextExpected_AnyHeader(c, expected) == expected + 1

\* expected_number after a detected header.
NextExpected(c, expected) == IF c.is_numbered THEN expected + 1 ELSE expected

Init ==
    /\ all_lines \in InputLists
    /\ i = 0
    /\ sections = <<>>
    /\ current_section = [title |-> PreambleTitle, content |-> <<>>]
    /\ expected_number = 1
    /\ pc = "scan"
    /\ opened = <<[at |-> -1, span |-> 0, kind |-> "preamble", title |-> PreambleTitle,
                   body |-> <<>>]>>
    /\ helper = Off /\ parser = Off /\ ui = Off

\* The scan started on a longer document of core lines.
InitLong ==
    /\ all_lines \in LongInputLists
    /\ i = 0
    /\ sections = <<>>
    /\ current_section = [title |-> PreambleTitle, content |-> <<>>]
    /\ expected_number = 1
    /\ pc = "scan"
    /\ opened = <<[at |-> -1, span |-> 0, kind |-> "preamble", title |-> PreambleTitle,
                   body |-> <<>>]>>
    /\ helper = Off /\ parser = Off /\ ui = Off

\* Which branch of the loop body the detection outcome c takes.
KindOf(c) ==
    IF ~c.detected_header THEN "content"
    ELSE IF ~c.is_numbered THEN "mapped"
    ELSE IF c.skip = 1 THEN "split" ELSE "single"

\* The body of "if detected_header:" and the cursor advance, for the
\* detection outcome c.
OpenSection(c) ==
    /\ sections' = CloseSection(sections, current_section)
    /\ current_section' = [title |-> OpenedTitle(c), content |-> <<>>]
    /\ expected_number' = NextExpected(c, expected_number)
    /\ i' = i + c.skip + 1
    /\ opened' = Append(opened, [at |-> i, span |-> c.skip + 1, kind |-> KindOf(c),
                                 title |-> OpenedTitle(c), body |-> <<>>])
    /\ UNCHANGED <<all_lines, pc, helper, parser, ui>>

\* AddContent with the content assigned (=) instead of extended (+=).
AddContent_Overwrite ==
    /\ current_section' = [current_section EXCEPT
                              !.content = all_lines[i + 1] \o <<" ">>]
    /\ i' = i + 1
    /\ opened' = [opened EXCEPT ![Len(opened)].body = Append(@, i)]
    /\ UNCHANGED <<all_lines, sections, expected_number, pc, helper, parser, ui>>

\* AddContent without the cursor advance of line 167.
AddContent_NoAdvance ==
    /\ current_section' = [current_section EXCEPT
                              !.content = @ \o all_lines[i + 1] \o <<" ">>]
    /\ opened' = [opened EXCEPT ![Len(opened)].body = Append(@, i)]
    /\ UNCHANGED <<all_lines, i, sections, expected_number, pc, helper, parser, ui>>

\* The else branch: the line joins the current section's content.
AddContent ==
    /\ current_section' = [current_section EXCEPT
                              !.content = @ \o all_lines[i + 1] \o <<" ">>]
    /\ i' = i + 1
    /\ opened' = [opened EXCEPT ![Len(opened)].body = Append(@, i)]
    /\ UNCHANGED <<all_lines, sections, expected_number, pc, helper, parser, ui>>

\* One loop iteration whose detection outcome is c, taken when it is of the
\* given kind.
Iterate(c, kind) ==
    /\ kind = KindOf(c)
    /\ IF c.detected_header THEN OpenSection(c) ELSE AddContent

InLoop == pc = "scan" /\ i < Len(all_lines)

AcceptSingleLine ==
    InLoop /\ Iterate(Classify(all_lines, i, expected_number), "single")

AcceptSplitLine ==
    InLoop /\ Iterate(Classify(all_lines, i, expected_number), "split")

AcceptMapped ==
    InLoop /\ Iterate(Classify(all_lines, i, expected_number), "mapped")

AppendContent ==
    InLoop /\ Iterate(Classify(all_lines, i, expected_number), "content")

\* The loop has ended: the last section is closed and the list returned.
Finish ==
    /\ pc = "scan" /\ i >= Len(all_lines)
    /\ sections' = CloseSection(sections, current_section)
    /\ pc' = "done"
    /\ UNCHANGED <<all_lines, i, current_section, expected_number, opened,
                   helper, parser, ui>>

Next == AcceptSingleLine \/ AcceptSplitLine \/ AcceptMapped \/ AppendContent \/ Finish

Spec == Init /\ [][Next]_vars

SpecLong == InitLong /\ [][Next]_vars

\* ===================================================== the review-skip test
SKIP_REVIEW_SECTIONS ==
    {<<"A", "B", "S", "T", "R", "A", "C", "T">>,
     <<"P", "R", "E", "A", "M", "B", "L", "E">>,
     <<"P", "R", "E", "A", "M", "B", "L", "E", "/", "I", "N", "T", "R", "O", "D", "U", "C", "T", "I", "O", "N">>,
     <<"R", "E", "F", "E", "R", "E", "N", "C", "E", "S">>,
     <<"B", "I", "B", "L", "I", "O", "G", "R", "A", "P", "H", "Y">>,
     <<"A", "C", "K", "N", "O", "W", "L", "E", "D", "G", "M", "E", "N", "T">>,
     <<"A", "P", "P", "E", "N", "D", "I", "X">>,
     <<"D", "E", "C", "L", "A", "R", "A", "T", "I", "O", "N">>}

\* the class \w (and so [\d\w]) on the characters of the model
IsWordChar(c) ==
    c \in Range(LowerLetters) \cup Range(UpperLetters) \cup Range(Digits) \cup {"_"}

\* The number of leading word characters of text.
WordRun(text) ==
    Min({k \in 1..(Len(text) + 1) : k = Len(text) + 1 \/ ~IsWordChar(text[k])}) - 1

\* clean_name without the match of ^[\d\w]+\.\s* , n being its leading run of
\* word characters: the run, the dot after it and the whitespace after the dot.
DropLabel(clean_name, n) ==
    IF n > 0 /\ DotRun(clean_name, n) = 1
    THEN SubSeq(clean_name, n + 2 + SpaceRun(clean_name, n + 1), Len(clean_name))
    ELSE clean_name

\* re.sub(r"^[\d\w]+\.\s*", "", clean_name)
StripLabelPrefix(clean_name) == DropLabel(clean_name, WordRun(clean_name))

\* The skip test with the raw uppercased title only.
is_skipped_RawTitleOnly(section_name) == Upper(section_name) \in SKIP_REVIEW_SECTIONS

\* clean_name in SKIP_REVIEW_SECTIONS or section_name.upper() in SKIP_REVIEW_SECTIONS
is_skipped(section_name) ==
    \/ StripLabelPrefix(Strip(Upper(section_name))) \in SKIP_REVIEW_SECTIONS
    \/ Upper(section_name) \in SKIP_REVIEW_SECTIONS

\* What the two chat-completion calls of generate_section_review can come to:
\* the first model answers, with flagged issues, with none, or with an empty
\* message; it fails and the fallback answers; both fail.
LlmOutcomes ==
    {[text |-> "FLAGGED ISSUES: weak baseline", llm_calls |-> 1],
     [text |-> "FLAGGED ISSUES: (None)", llm_calls |-> 1],
     [text |-> "", llm_calls |-> 1],
     [text |-> "FLAGGED ISSUES: (None)", llm_calls |-> 2],
     [text |-> "AI Error: timeout", llm_calls |-> 2]}

\* generate_section_review: None without a call for a skipped title, else the
\* text the calls come to.
generate_section_review(section_name, llm) ==
    IF is_skipped(section_name)
    THEN [out |-> None, llm_calls |-> 0]
    ELSE [out |-> <<llm.text>>, llm_calls |-> llm.llm_calls]

\* Section titles the assembler can return: the preamble title, canonical
\* mapped titles, "{numeral}. {phrase}" titles and the title of the error
\* section.
SectionTitles ==
    {<<"P", "r", "e", "a", "m", "b", "l", "e", "/", "I", "n", "t", "r", "o", "d", "u", "c", "t", "i", "o", "n">>,
     <<"A", "B", "S", "T", "R", "A", "C", "T">>,
     <<"I", "N", "T", "R", "O", "D", "U", "C", "T", "I", "O", "N">>,
     <<"R", "E", "L", "A", "T", "E", "D", " ", "W", "O", "R", "K">>,
     <<"R", "E", "F", "E", "R", "E", "N", "C", "E", "S">>,
     <<"A", "C", "K", "N", "O", "W", "L", "E", "D", "G", "M", "E", "N", "T">>,
     <<"A", "P", "P", "E", "N", "D", "I", "X">>,
     <<"D", "E", "C", "L", "A", "R", "A", "T", "I", "O", "N">>,
     <<"3", ".", " ", "A", "B", "S", "T", "R", "A", "C", "T">>,
     <<"4", ".", " ", "M", "E", "T", "H", "O", "D", "O", "L", "O", "G", "Y">>,
     <<"1", ".", " ", "A", "b", "s", "t", "r", "a", "c", "t">>,
     <<"I", "I", ".", " ", "R", "e", "f", "e", "r", "e", "n", "c", "e", "s">>,
     <<"i", "v", ".", " ", "A", "p", "p", "e", "n", "d", "i", "x">>,
     <<"2", ".", " ", "A", "b", "s", "t", "r", "a", "c", "t", " ", "S", "y", "n", "t", "a", "x">>,
     <<"1", ".", " ", "A", "b", "s", "t", "r", "a", "c", "t", ":">>,
     <<"1", "2", ".", " ", "B", "i", "b", "l", "i", "o", "g", "r", "a", "p", "h", "y">>,
     <<"3", ".", " ", "A", ".", " ", "A", "p", "p", "e", "n", "d", "i", "x">>,
     <<"1", ".", " ", "P", "r", "e", "a", "m", "b", "l", "e">>,
     <<"E", "r", "r", "o", "r", " ", "R", "e", "a", "d", "i", "n", "g", " ", "P", "D", "F">>}

\* ============================================== helpers called on their own
\* The scan takes no part in the run.
ScanOff ==
    /\ all_lines = <<>>
    /\ i = 0
    /\ sections = <<>>
    /\ current_section = [title |-> PreambleTitle, content |-> <<>>]
    /\ expected_number = 1
    /\ pc = "off"
    /\ opened = <<>>

\* A call of function fn on arg that has not returned yet.
Call(fn, arg) == [pc |-> "call", fn |-> fn, arg |-> arg, out |-> None, llm_calls |-> 0]

\* Lines _get_mapped_title is called on: spellings of table keys, lines that
\* contain a key, lines with colons in other places, other lines.
TitleLines ==
    {<<"L", "i", "t", "e", "r", "a", "t", "u", "r", "e", " ", "R", "e", "v", "i", "e", "w">>,
     <<"L", "I", "T", "E", "R", "A", "T", "U", "R", "E", " ", "R", "E", "V", "I", "E", "W", ":">>,
     <<"l", "i", "t", "e", "r", "a", "t", "u", "r", "e", " ", "r", "e", "v", "i", "e", "w">>,
     <<"B", "a", "c", "k", "g", "r", "o", "u", "n", "d", ":">>,
     <<"A", "b", "s", "t", "r", "a", "c", "t">>,
     <<"A", "B", "S", "T", "R", "A", "C", "T", ":">>,
     <<"T", "h", "e", " ", "A", "b", "s", "t", "r", "a", "c", "t", " ", "c", "l", "a", "i", "m", "s">>,
     <<"R", "e", "l", "a", "t", "e", "d", ":", " ", "W", "o", "r", "k">>,
     <<":", "A", "b", "s", "t", "r", "a", "c", "t">>,
     <<"A", "b", "s", "t", "r", "a", "c", "t", " ", ":">>,
     <<"A", "c", "k", "n", "o", "w", "l", "e", "d", "g", "e", "m", "e", "n", "t", "s">>,
     <<"B", "a", "c", "k", "g", "r", "o", "u", "n", "d", "s">>,
     <<"w", "e", " ", "r", "a", "n", " ", "t", "e", "s", "t", "s">>}

\* Longest numeral token the resolver is called on.
MaxTokenLen == 3

TokenChars == {"I", "V", "X", "c", "1", "0", "a"}

\* Every token of at most MaxTokenLen characters, the empty token included.
NumeralTokens == UNION {[1..n -> TokenChars] : n \in 0..MaxTokenLen}

HelperCalls ==
    {Call("generate_section_review", t) : t \in SectionTitles}
        \cup {Call("get_mapped_title", t) : t \in TitleLines}
        \cup {Call("resolve_numeral", t) : t \in NumeralTokens}

InitHelpers ==
    /\ ScanOff
    /\ helper \in HelperCalls
    /\ parser = Off /\ ui = Off

Calling(fn) == helper.pc = "call" /\ helper.fn = fn

Returned(r) ==
    /\ helper' = [helper EXCEPT !.pc = "returned", !.out = r.out, !.llm_calls = r.llm_calls]
    /\ UNCHANGED <<scan_vars, parser, ui>>

ReviewSection ==
    /\ Calling("generate_section_review")
    /\ \E llm \in LlmOutcomes : Returned(generate_section_review(helper.arg, llm))

MapTitle ==
    /\ Calling("get_mapped_title")
    /\ Returned([out |-> get_mapped_title(helper.arg), llm_calls |-> 0])

ResolveToken ==
    /\ Calling("resolve_numeral")
    /\ Returned([out |-> ResolveNumeral(helper.arg), llm_calls |-> 0])

NextHelpers == ReviewSection \/ MapTitle \/ ResolveToken

SpecHelpers == InitHelpers /\ [][NextHelpers]_vars

\* ================================================== the batch loop of UI.py
\* Most files of one upload.
MaxFiles == 2

\* sub in s
Contains(s, sub) ==
    \E k \in 0..(Len(s) - Len(sub)) : SubSeq(s, k + 1, k + Len(sub)) = sub

\* The filter of valid_sections with the skip test of generate_section_review.
is_valid_section_SkipTest(title) == ~is_skipped(title)

\* not any(skip in s['title'].upper() for skip in backend.SKIP_REVIEW_SECTIONS)
is_valid_section(title) ==
    \A skip \in SKIP_REVIEW_SECTIONS : ~Contains(Upper(title), skip)

\* What extract_sections_visual returns for the uploaded documents, as the
\* list of the section titles (every returned section has content): no
\* section; a skipped section and two numbered ones; a numbered section whose
\* phrase starts with a skip name; the error section.
Documents ==
    {<<>>,
     <<<<"A", "B", "S", "T", "R", "A", "C", "T">>,
       <<"1", ".", " ", "I", "n", "t", "r", "o">>,
       <<"2", ".", " ", "M", "e", "t", "h", "o", "d">>>>,
     <<<<"1", ".", " ", "A", "b", "s", "t", "r", "a", "c", "t", " ", "S", "y", "n", "t", "a", "x">>,
       <<"2", ".", " ", "M", "e", "t", "h", "o", "d">>>>,
     <<<<"E", "r", "r", "o", "r", " ", "R", "e", "a", "d", "i", "n", "g", " ", "P", "D", "F">>>>}

\* What evaluate_first_pass can return.
FirstPassReplies ==
    {"DECISION: PROCEED", "DECISION: REJECT REASON: out of scope", "AI Error: timeout"}

\* "REJECT" in first_pass_result
HasReject(first_pass_result) == first_pass_result = "DECISION: REJECT REASON: out of scope"

\* "FLAGGED ISSUES" in feedback and "(None)" not in feedback
IsFlagged(feedback) == feedback = "FLAGGED ISSUES: weak baseline"

\* if feedback:
IsTruthy(out) == out # None /\ out # <<"">>

Note(text, items) == [text |-> text, items |-> items]

\* The locals of one file's iteration before the file is read.
FileLocals ==
    [sections |-> <<>>, valid_sections |-> <<>>, idx |-> 0, first_pass_result |-> "",
     report_log |-> <<>>, file_section_data |-> <<>>, flagged_items |-> <<>>,
     decision |-> "", notes |-> Note("", <<>>), reviewed |-> <<>>]

\* The state when the processing block is entered for n uploaded files, after
\* the start button set processing and cleared results. raised, no_sections
\* and reviewed are records kept beside the program state: the files whose
\* iteration ended in the except branch, the files for which
\* extract_sections_visual returned no section, and the titles of the current
\* file for which a chat-completion call was made.
UiStart(n) ==
    [pc |-> "next_file", n_files |-> n, i |-> 0, processing |-> TRUE, results |-> <<>>,
     temp_results |-> <<>>, raised |-> {}, no_sections |-> {}, f |-> FileLocals]

InitUI ==
    /\ ScanOff
    /\ helper = Off /\ parser = Off
    /\ ui \in {UiStart(n) : n \in 1..MaxFiles}

UiStep(next_ui) == ui' = next_ui /\ UNCHANGED <<scan_vars, helper, parser>>

\* Lines 145-150: the sections of the file and those to review.
Extract ==
    /\ ui.pc = "next_file" /\ ui.i < ui.n_files
    /\ \E doc \in Documents :
           UiStep([ui EXCEPT !.pc = "first_pass",
                             !.no_sections = IF doc = <<>> THEN @ \cup {ui.i} ELSE @,
                             !.f = [FileLocals EXCEPT
                                       !.sections = doc,
                                       !.valid_sections = SelectSeq(doc, is_valid_section)]])

\* Lines 178-182: the first pass rejected the document.
Rejected(first_pass_result) ==
    [ui.f EXCEPT !.first_pass_result = first_pass_result,
                 !.report_log = <<[entry |-> "FIRST PASS", text |-> first_pass_result],
                                  [entry |-> "SKIPPING", text |-> ""]>>,
                 !.decision = "REJECT",
                 !.notes = Note("out of scope", <<>>)]

\* Lines 174-176 and 185-186: the section analysis starts.
Proceeding(first_pass_result) ==
    [ui.f EXCEPT !.first_pass_result = first_pass_result,
                 !.report_log = <<[entry |-> "FIRST PASS", text |-> first_pass_result],
                                  [entry |-> "SECTION ANALYSIS", text |-> ""]>>,
                 !.decision = "PROCEED",
                 !.notes = Note("Standard review.", <<>>),
                 !.flagged_items = <<>>]

\* Lines 166-186.
FirstPass ==
    /\ ui.pc = "first_pass"
    /\ \E first_pass_result \in FirstPassReplies :
           IF HasReject(first_pass_result)
           THEN UiStep([ui EXCEPT !.pc = "report", !.f = Rejected(first_pass_result)])
           ELSE UiStep([ui EXCEPT !.pc = "review", !.f = Proceeding(first_pass_result)])

\* The entries of a section put before those of the sections reviewed earlier.
AfterReview_NewestFirst(title, r) ==
    [ui.f EXCEPT
        !.idx = @ + 1,
        !.reviewed = IF r.llm_calls > 0 THEN Append(@, title) ELSE @,
        !.report_log = IF IsTruthy(r.out)
                       THEN SubSeq(@, 1, 2) \o <<[entry |-> title, text |-> r.out[1]]>>
                                \o SubSeq(@, 3, Len(@))
                       ELSE @,
        !.file_section_data = IF IsTruthy(r.out)
                              THEN <<[title |-> title, content |-> r.out[1]]>> \o @ ELSE @,
        !.flagged_items = IF IsTruthy(r.out) /\ IsFlagged(r.out[1])
                          THEN Append(@, title) ELSE @]

\* Lines 201-212 for the section title and what generate_section_review
\* returned for it.
AfterReview(title, r) ==
    [ui.f EXCEPT
        !.idx = @ + 1,
        !.reviewed = IF r.llm_calls > 0 THEN Append(@, title) ELSE @,
        !.report_log = IF IsTruthy(r.out)
                       THEN Append(@, [entry |-> title, text |-> r.out[1]]) ELSE @,
        !.file_section_data = IF IsTruthy(r.out)
                              THEN Append(@, [title |-> title, content |-> r.out[1]]) ELSE @,
        !.flagged_items = IF IsTruthy(r.out) /\ IsFlagged(r.out[1])
                          THEN Append(@, title) ELSE @]

\* One iteration of the loop over valid_sections, lines 188-212.
Review ==
    /\ ui.pc = "review" /\ ui.f.idx < Len(ui.f.valid_sections)
    /\ \E llm \in LlmOutcomes :
           UiStep([ui EXCEPT !.f = AfterReview(ui.f.valid_sections[ui.f.idx + 1],
                                   generate_section_review(ui.f.valid_sections[ui.f.idx + 1], llm))])

\* Lines 214-218.
Decide ==
    /\ ui.pc = "review" /\ ui.f.idx = Len(ui.f.valid_sections)
    /\ UiStep([ui EXCEPT
                  !.pc = "report",
                  !.f.decision = IF ui.f.flagged_items # <<>>
                                 THEN "Accept w/ Suggestions" ELSE "Accept",
                  !.f.notes = IF ui.f.flagged_items # <<>>
                              THEN Note("Issues in: ", ui.f.flagged_items) ELSE @])

\* Lines 221-232 and 237: the report and the result entry of the file.
Report ==
    /\ ui.pc = "report"
    /\ UiStep([ui EXCEPT
                  !.pc = "next_file",
                  !.i = @ + 1,
                  !.temp_results = Append(@, [filename |-> ui.i,
                                              decision |-> ui.f.decision,
                                              notes |-> ui.f.notes,
                                              report_text |-> ui.f.report_log,
                                              pdf_bytes |-> [pdf_of |-> ui.f.report_log],
                                              first_pass_data |-> ui.f.first_pass_result,
                                              section_data |-> ui.f.file_section_data]),
                  !.f = FileLocals])

\* An exception that is not caught per file: it ends the whole loop.
FileRaises_EndsBatch ==
    /\ ui.pc \in {"first_pass", "review", "report"}
    /\ UiStep([ui EXCEPT !.pc = "next_file", !.i = ui.n_files, !.raised = @ \cup {ui.i},
                         !.f = FileLocals])

\* Lines 234-237: an exception raised inside the try block ends the file's
\* iteration without a result entry.
FileRaises ==
    /\ ui.pc \in {"first_pass", "review", "report"}
    /\ UiStep([ui EXCEPT !.pc = "next_file", !.i = @ + 1, !.raised = @ \cup {ui.i},
                         !.f = FileLocals])

\* Lines 239-240, after the loop.
EndBatch ==
    /\ ui.pc = "next_file" /\ ui.i = ui.n_files
    /\ UiStep([ui EXCEPT !.pc = "done", !.results = ui.temp_results, !.processing = FALSE])

NextUI == Extract \/ FirstPass \/ Review \/ Decide \/ Report \/ FileRaises \/ EndBatch

SpecUI == InitUI /\ [][NextUI]_vars

\* ===================================== parse_pdf_text of section_parser.py
\* Longest list of text lines parse_pdf_text is run on.
MaxTextLines == 4

\* len(clean_line) > 120
MaxHeaderLen == 120

\* len(upper_line) < len(keyword) + 10
StopMargin == 10

STOP_KEYWORDS ==
    <<<<"R", "E", "F", "E", "R", "E", "N", "C", "E", "S">>,
      <<"B", "I", "B", "L", "I", "O", "G", "R", "A", "P", "H", "Y">>,
      <<"A", "P", "P", "E", "N", "D", "I", "X">>,
      <<"A", "P", "P", "E", "N", "D", "I", "C", "E", "S">>,
      <<"A", "C", "K", "N", "O", "W", "L", "E", "D", "G", "E", "M", "E", "N", "T">>,
      <<"A", "C", "K", "N", "O", "W", "L", "E", "D", "G", "E", "M", "E", "N", "T", "S">>>>

\* The loop over STOP_KEYWORDS of lines 62-65.
is_excluded(upper_line) ==
    \E k \in 1..Len(STOP_KEYWORDS) :
        /\ Contains(upper_line, STOP_KEYWORDS[k])
        /\ Len(upper_line) < Len(STOP_KEYWORDS[k]) + StopMargin

\* The texts matched by (C[MD]|D?C{0,3}), (X[CL]|L?X{0,3}) and (I[XV]|V?I{0,3}).
RomanHundreds == {<<>>, <<"C">>, <<"C", "C">>, <<"C", "C", "C">>, <<"C", "D">>, <<"D">>, <<"D", "C">>, <<"D", "C", "C">>, <<"D", "C", "C", "C">>, <<"C", "M">>}

RomanTens == {<<>>, <<"X">>, <<"X", "X">>, <<"X", "X", "X">>, <<"X", "L">>, <<"L">>, <<"L", "X">>, <<"L", "X", "X">>, <<"L", "X", "X", "X">>, <<"X", "C">>}

RomanUnits == {<<>>, <<"I">>, <<"I", "I">>, <<"I", "I", "I">>, <<"I", "V">>, <<"V">>, <<"V", "I">>, <<"V", "I", "I">>, <<"V", "I", "I", "I">>, <<"I", "X">>}

\* The texts matched by (C[MD]|D?C{0,3})(X[CL]|L?X{0,3})(I[XV]|V?I{0,3}).
RomanBelowThousand ==
    {h \o x \o u : h \in RomanHundreds, x \in RomanTens, u \in RomanUnits}

\* The number of leading characters of text in the class [MDCLXVI].
UpperRomanRun(text) ==
    Min({k \in 1..(Len(text) + 1) :
            k = Len(text) + 1 \/ ~(text[k] \in {"M", "D", "C", "L", "X", "V", "I"})}) - 1

\* The number of leading characters "M" of text.
ThousandsRun(text) ==
    Min({k \in 1..(Len(text) + 1) : k = Len(text) + 1 \/ text[k] # "M"}) - 1

\* numeral is matched by (?=[MDCLXVI])M*(C[MD]|D?C{0,3})(X[CL]|L?X{0,3})(I[XV]|V?I{0,3}).
\* M* takes every leading M: none of the three groups can begin with one.
IsStrictRoman(numeral) ==
    /\ numeral # <<>>
    /\ SubSeq(numeral, ThousandsRun(numeral) + 1, Len(numeral)) \in RomanBelowThousand

\* The n leading characters of clean_line are followed by \.\s+ (and .* takes
\* the rest).
DotSpaceAfter(clean_line, n) ==
    n > 0 /\ DotRun(clean_line, n) = 1 /\ SpaceRun(clean_line, n + 1) > 0

\* re.match(arabic_pattern, clean_line): ^\d+\.\s+.*
MatchesArabic(clean_line) == DotSpaceAfter(clean_line, LeadingRun(clean_line, FALSE))

\* re.match(roman_pattern, clean_line). What follows the numeral is a dot, so
\* the numeral is the whole leading run of Roman letters.
MatchesRoman(clean_line) ==
    /\ DotSpaceAfter(clean_line, UpperRomanRun(clean_line))
    /\ IsStrictRoman(SubSeq(clean_line, 1, UpperRomanRun(clean_line)))

HeaderTest(clean_line) ==
    IF Len(clean_line) > MaxHeaderLen THEN FALSE
    ELSE MatchesArabic(clean_line) \/ MatchesRoman(clean_line)

is_level_1_header(line) == HeaderTest(Strip(line))

PreambleKey == <<"P", "R", "E", "A", "M", "B", "L", "E">>

\* The dict sections as the list of its items in insertion order; lines holds
\* the positions in text_lines of the lines appended under the key.
HasKey(secs, title) == \E k \in 1..Len(secs) : secs[k].title = title

\* sections[title] = []
SetEmpty(secs, title) ==
    IF HasKey(secs, title)
    THEN [k \in 1..Len(secs) |->
             IF secs[k].title = title THEN [title |-> title, lines |-> <<>>] ELSE secs[k]]
    ELSE Append(secs, [title |-> title, lines |-> <<>>])

\* sections[title].append(the line at position at)
AppendTo(secs, title, at) ==
    [k \in 1..Len(secs) |->
        IF secs[k].title = title
        THEN [title |-> title, lines |-> Append(secs[k].lines, at)]
        ELSE secs[k]]

\* "\n".join(v) for the lines at the positions idxs
JoinNewline(lines, idxs) ==
    LET joined[k \in 0..Len(idxs)] ==
            IF k = 0 THEN <<>>
            ELSE IF k = 1 THEN Strip(lines[idxs[1]])
            ELSE joined[k - 1] \o <<"\n">> \o Strip(lines[idxs[k]])
    IN  joined[Len(idxs)]

HasLines(item) == item.lines # <<>>

\* {k: "\n".join(v) for k, v in sections.items() if v}
FinalOutput(lines, secs) ==
    [k \in 1..Len(SelectSeq(secs, HasLines)) |->
        [title |-> SelectSeq(secs, HasLines)[k].title,
         content |-> JoinNewline(lines, SelectSeq(secs, HasLines)[k].lines),
         lines |-> SelectSeq(secs, HasLines)[k].lines]]

LnRomanDot == <<"I", "I", ".", " ", "D", "a", "t", "a">>

LnMore == <<"m", "o", "r", "e", " ", "t", "e", "x", "t">>

LnAcknowledgment == <<"A", "C", "K", "N", "O", "W", "L", "E", "D", "G", "M", "E", "N", "T">>

LnNumberedReferences == <<"7", ".", " ", "R", "e", "f", "e", "r", "e", "n", "c", "e", "s">>

LnBlank == <<" ", " ">>

\* The text lines given to parse_pdf_text: headers, content, stop lines, a
\* blank line.
TextVocabulary ==
    {LnIntro, LnRomanDot, LnBody, LnMore, LnReferences, LnAcknowledgment,
     LnNumberedReferences, LnBlank}

TextLists == UNION {[1..n -> TextVocabulary] : n \in 0..MaxTextLines}

\* parse_pdf_text before the first line: at is the number of lines read.
ParserStart(text_lines) ==
    [pc |-> "loop", text_lines |-> text_lines, at |-> 0,
     sections |-> <<[title |-> PreambleKey, lines |-> <<>>]>>,
     current_section_title |-> PreambleKey,
     final_output |-> <<>>]

InitParser ==
    /\ ScanOff
    /\ helper = Off /\ ui = Off
    /\ parser \in {ParserStart(text_lines) : text_lines \in TextLists}

ParserStep(next_parser) == parser' = next_parser /\ UNCHANGED <<scan_vars, helper, ui>>

InParserLoop == parser.pc = "loop" /\ parser.at < Len(parser.text_lines)

\* Line 52
CleanLine == Strip(parser.text_lines[parser.at + 1])

\* Line 58
UpperLine == RemoveChar(Upper(CleanLine), ".")

\* Lines 54-55: an empty line is passed over.
SkipEmptyLine ==
    /\ InParserLoop
    /\ CleanLine = <<>>
    /\ ParserStep([parser EXCEPT !.at = @ + 1])

\* Lines 60-68: a stop line ends the loop.
StopAtKeyword ==
    /\ InParserLoop
    /\ CleanLine # <<>>
    /\ is_excluded(UpperLine)
    /\ ParserStep([parser EXCEPT !.pc = "return"])

\* Lines 71-74: a header line becomes the current key, with an empty list.
OpenHeader ==
    /\ InParserLoop
    /\ CleanLine # <<>>
    /\ ~is_excluded(UpperLine)
    /\ is_level_1_header(CleanLine)
    /\ ParserStep([parser EXCEPT !.at = @ + 1,
                                 !.current_section_title = CleanLine,
                                 !.sections = SetEmpty(@, CleanLine)])

\* Lines 75-77: any other line joins the list of the current key.
AppendLine ==
    /\ InParserLoop
    /\ CleanLine # <<>>
    /\ ~is_excluded(UpperLine)
    /\ ~is_level_1_header(CleanLine)
    /\ ParserStep([parser EXCEPT
                      !.at = @ + 1,
                      !.sections = AppendTo(@, parser.current_section_title, parser.at + 1)])

\* The loop has read every line.
EndOfLines ==
    /\ parser.pc = "loop" /\ parser.at = Len(parser.text_lines)
    /\ ParserStep([parser EXCEPT !.pc = "return"])

\* Lines 80-82
ReturnOutput ==
    /\ parser.pc = "return"
    /\ ParserStep([parser EXCEPT
                      !.pc = "done",
                      !.final_output = FinalOutput(parser.text_lines, parser.sections)])

NextParser ==
    SkipEmptyLine \/ StopAtKeyword \/ OpenHeader \/ AppendLine \/ EndOfLines \/ ReturnOutput

SpecParser == InitParser /\ [][NextParser]_vars

\* =============================================================== claims
\* ------------------------------------------------- vocabulary of the claims
\* The stop-boundary keywords.
StopKeywords ==
    {<<"R", "E", "F", "E", "R", "E", "N", "C", "E", "S">>,
     <<"B", "I", "B", "L", "I", "O", "G", "R", "A", "P", "H", "Y">>,
     <<"A", "P", "P", "E", "N", "D", "I", "X">>,
     <<"A", "P", "P", "E", "N", "D", "I", "C", "E", "S">>,
     <<"A", "C", "K", "N", "O", "W", "L", "E", "D", "G", "M", "E", "N", "T">>,
     <<"A", "C", "K", "N", "O", "W", "L", "E", "D", "G", "E", "M", "E", "N", "T", "S">>}

\* A line that is just a stop-boundary keyword.
IsStopLine(line) == Strip(Upper(line)) \in StopKeywords

\* The cursor positions of the stop-boundary lines of the input.
StopPositions == {k \in 0..(Len(all_lines) - 1) : IsStopLine(all_lines[k + 1])}

\* Position k lies before the first stop-boundary line.
BeforeStop(k) == \A s \in StopPositions : k < s

\* The concatenation of line + " " over the lines at the cursor positions idxs.
JoinLines(lines, idxs) ==
    LET joined[k \in 0..Len(idxs)] ==
            IF k = 0 THEN <<>> ELSE joined[k - 1] \o lines[idxs[k] + 1] \o <<" ">>
    IN  joined[Len(idxs)]

HasBody(e) == e.body # <<>>

\* The opened sections that received content, in the order they were opened.
WithBody(entries) == SelectSeq(entries, HasBody)

IsNumberedKind(kind) == kind \in {"single", "split"}

\* The positions in opened of the sections opened by a numbered header.
NumberedOpened == {k \in 1..Len(opened) : IsNumberedKind(opened[k].kind)}

\* -------------------------------------------------------------------- C1
\* C1: once a stop-boundary line is reached the scan halts: no line at or
\* after the first stop-boundary line gives a title or content to a section
\* of the returned list.
EntryBeforeStop(e) ==
    /\ \A j \in 0..(e.span - 1) : BeforeStop(e.at + j)
    /\ \A b \in 1..Len(e.body) : BeforeStop(e.body[b])

\* C1: every section of the returned list has its header lines and its content
\* lines before the first stop-boundary line.
C1_NothingFromStopBoundaryOnward ==
    pc = "done" =>
        \A k \in 1..Len(WithBody(opened)) : EntryBeforeStop(WithBody(opened)[k])

\* -------------------------------------------------------------------- C2
\* C2: expected_number is 1 plus the number of numbered headers accepted so
\* far; mapped headers and content lines leave it unchanged.
C2_ExpectedNumberCountsNumberedHeaders ==
    expected_number = 1 + Cardinality(NumberedOpened)

\* Two numbered headers and a mapped header have been accepted.
C2_Witness ==
    /\ expected_number = 3
    /\ \E k \in 1..Len(opened) : opened[k].kind = "mapped"

\* -------------------------------------------------------------------- C3
\* C3: a line that matches the numbered-header pattern with a valid phrase
\* (shorter than 30 characters, not a caption) and whose numeral resolves to
\* a number other than expected_number is not accepted as a numbered header;
\* unless it is a mapped title the step adds the line to the current content
\* and leaves the section list, the current title and expected_number alone.
GapParsed(p, expected) ==
    /\ p.num # None
    /\ Len(p.phrase) < 30
    /\ ~IsCaptionPhrase(p.phrase)
    /\ ResolveNumeral(p.num) # None
    /\ ResolveNumeral(p.num) # <<expected>>

IsGapLine(line, expected) == GapParsed(parse_header_components(line), expected)

\* The step at the cursor added its line to the content and nothing else.
LineBecomesContent ==
    /\ sections' = sections
    /\ current_section' = [title |-> current_section.title,
                           content |-> current_section.content \o all_lines[i + 1] \o <<" ">>]
    /\ expected_number' = expected_number
    /\ i' = i + 1
    /\ Len(opened') = Len(opened)

GapStep ==
    (InLoop /\ IsGapLine(all_lines[i + 1], expected_number)) =>
        /\ Len(opened') > Len(opened) => opened'[Len(opened')].kind = "mapped"
        /\ get_mapped_title(all_lines[i + 1]) = None => LineBecomesContent

\* C3: every step at a sequence-gap line leaves it to the content.
C3_SequenceGapIsContent == [][GapStep]_vars

\* expected_number while the section opened[k] was the current one.
ExpectedDuring(k) == 1 + Cardinality({m \in 1..k : IsNumberedKind(opened[m].kind)})

\* Some section holds a line that was a sequence gap when it was scanned.
C3_Witness ==
    \E k \in 1..Len(opened) : \E b \in 1..Len(opened[k].body) :
        IsGapLine(all_lines[opened[k].body[b] + 1], ExpectedDuring(k))

\* -------------------------------------------------------------------- C4
\* A title of the form "{numeral}. {phrase}".
HasNumeralPrefix(title, n) ==
    n > 0 /\ Len(title) >= n + 2 /\ title[n + 1] = "." /\ title[n + 2] = " "

IsNumberedTitle(title) == HasNumeralPrefix(title, NumeralRun(title))

IsNumberedSection(sec) == IsNumberedTitle(sec.title)

\* The resolved numeral of a numbered title.
TitleValue(title) == ResolveNumeral(SubSeq(title, 1, NumeralRun(title)))[1]

\* The numbered sections of the section list, in order.
NumberedSections == SelectSeq(sections, IsNumberedSection)

IsNumberedEntry(e) == IsNumberedKind(e.kind)

\* The numbered headers accepted, in order.
NumberedHeaders == SelectSeq(opened, IsNumberedEntry)

\* C4 as stated: the k-th numbered section of the returned list resolves to k.
C4_ReturnedNumeralsAreOneToN ==
    pc = "done" =>
        \A k \in 1..Len(NumberedSections) : TitleValue(NumberedSections[k].title) = k

\* C4 as amended: the k-th numbered header accepted resolves to k; the
\* returned numbered sections (those with non-blank content) have strictly
\* increasing numerals and the k-th of them resolves to at least k.
C4_AcceptedNumeralsAreOneToN ==
    /\ \A k \in 1..Len(NumberedHeaders) : TitleValue(NumberedHeaders[k].title) = k
    /\ \A k \in 1..Len(NumberedSections) :
           /\ TitleValue(NumberedSections[k].title) >= k
           /\ k > 1 => TitleValue(NumberedSections[k].title) >
                           TitleValue(NumberedSections[k - 1].title)

\* Two numbered sections are returned, numbered 1 and 2.
C4_Witness ==
    /\ pc = "done"
    /\ Len(NumberedSections) = 2
    /\ TitleValue(NumberedSections[1].title) = 1
    /\ TitleValue(NumberedSections[2].title) = 2

\* -------------------------------------------------------------------- C5
\* C5: when the line at the cursor is a bare numeral (with or without a
\* period) that resolves to expected_number and the next line is non-empty,
\* shorter than 30 characters, starts with an uppercase letter and is no
\* caption phrase, the step opens one section titled "{numeral}. {next
\* line}", moves the cursor by 2 and adds neither line to any content; the
\* content of the new section starts with the line after the two.
IsSplitPhrase(next_line) ==
    /\ next_line # <<>>
    /\ Len(next_line) < 30
    /\ IsUpperChar(next_line[1])
    /\ ~IsCaptionPhrase(next_line)

IsSplitHeader(numeral, next_line, expected) ==
    numeral # None /\ ResolveNumeral(numeral) = <<expected>> /\ IsSplitPhrase(next_line)

SplitHeaderAtCursor ==
    /\ InLoop
    /\ i + 1 < Len(all_lines)
    /\ IsSplitHeader(BareNumeral(all_lines[i + 1]), all_lines[i + 2], expected_number)

SplitHeaderOpened ==
    /\ current_section' = [title |-> BareNumeral(all_lines[i + 1]) \o <<".", " ">>
                                         \o all_lines[i + 2],
                           content |-> <<>>]
    /\ i' = i + 2
    /\ Len(opened') = Len(opened) + 1
    /\ sections' \in {sections, Append(sections, current_section)}

\* The content of a section opened by a split-line header starts with the
\* line after the header's two lines.
SplitContentStart ==
    (pc = "scan" /\ opened[Len(opened)].kind = "split" /\ current_section.content # <<>>) =>
        StartsWith(current_section.content,
                   all_lines[opened[Len(opened)].at + 3] \o <<" ">>)

SplitStep == (SplitHeaderAtCursor => SplitHeaderOpened) /\ SplitContentStart'

\* C5: every step at a split-line header opens its section and moves the
\* cursor by 2, and the section's content starts after the two lines.
C5_SplitLineHeader == [][SplitStep]_vars

\* A split-line header was accepted and its section has received content.
C5_Witness ==
    /\ pc = "scan"
    /\ opened[Len(opened)].kind = "split"
    /\ current_section.content # <<>>

\* -------------------------------------------------------------------- C6
\* C6: a numbered header candidate, single-line or split-line, whose phrase
\* has 30 characters or more opens no section, also when its numeral is
\* expected_number: the line at the cursor joins the current content and
\* expected_number stays.
HasLongPhrase(p) == p.num # None /\ Len(p.phrase) >= 30

LongPhraseAtCursor ==
    /\ InLoop
    /\ \/ HasLongPhrase(parse_header_components(all_lines[i + 1]))
       \/ /\ i + 1 < Len(all_lines)
          /\ BareNumeral(all_lines[i + 1]) # None
          /\ Len(Strip(all_lines[i + 2])) >= 30

LongPhraseStep == LongPhraseAtCursor => LineBecomesContent

\* C6: every step at a candidate with a phrase of 30 characters or more
\* leaves the line to the content.
C6_LongPhraseNeverOpensSection == [][LongPhraseStep]_vars

LongAndExpected(p, expected) ==
    HasLongPhrase(p) /\ ResolveNumeral(p.num) = <<expected>>

\* The line at position k is a bare numeral resolving to expected, followed
\* by a line of 30 characters or more.
LongSplitAt(k, expected) ==
    /\ k + 1 < Len(all_lines)
    /\ BareNumeral(all_lines[k + 1]) # None
    /\ ResolveNumeral(BareNumeral(all_lines[k + 1])) = <<expected>>
    /\ Len(all_lines[k + 2]) >= 30

\* Content holds a single-line candidate and the numeral of a split-line
\* candidate, each with the expected numeral and a phrase of 30 or more.
C6_Witness ==
    /\ \E k \in 1..Len(opened) : \E b \in 1..Len(opened[k].body) :
           LongAndExpected(parse_header_components(all_lines[opened[k].body[b] + 1]),
                           ExpectedDuring(k))
    /\ \E k \in 1..Len(opened) : \E b \in 1..Len(opened[k].body) :
           LongSplitAt(opened[k].body[b], ExpectedDuring(k))

\* -------------------------------------------------------------------- C7
\* C7: a numbered header candidate, single-line or split-line, whose phrase
\* uppercased begins with a caption keyword opens no section, also when its
\* numeral is expected_number and the phrase is shorter than 30 characters:
\* the line at the cursor joins the current content.
HasCaptionPhrase(p) == p.num # None /\ IsCaptionPhrase(p.phrase)

CaptionAtCursor ==
    /\ InLoop
    /\ \/ HasCaptionPhrase(parse_header_components(all_lines[i + 1]))
       \/ /\ i + 1 < Len(all_lines)
          /\ BareNumeral(all_lines[i + 1]) # None
          /\ IsCaptionPhrase(Strip(all_lines[i + 2]))

CaptionStep == CaptionAtCursor => LineBecomesContent

\* C7: every step at a candidate with a caption phrase leaves the line to
\* the content.
C7_CaptionNeverOpensSection == [][CaptionStep]_vars

ShortCaptionAndExpected(p, expected) ==
    HasCaptionPhrase(p) /\ Len(p.phrase) < 30 /\ ResolveNumeral(p.num) = <<expected>>

CaptionSplitAt(k, expected) ==
    /\ k + 1 < Len(all_lines)
    /\ BareNumeral(all_lines[k + 1]) # None
    /\ ResolveNumeral(BareNumeral(all_lines[k + 1])) = <<expected>>
    /\ Len(all_lines[k + 2]) < 30
    /\ IsUpperChar(all_lines[k + 2][1])
    /\ IsCaptionPhrase(all_lines[k + 2])

\* Content holds a single-line candidate and the numeral of a split-line
\* candidate, each with the expected numeral and a short caption phrase.
C7_Witness ==
    /\ \E k \in 1..Len(opened) : \E b \in 1..Len(opened[k].body) :
           ShortCaptionAndExpected(parse_header_components(all_lines[opened[k].body[b] + 1]),
                                   ExpectedDuring(k))
    /\ \E k \in 1..Len(opened) : \E b \in 1..Len(opened[k].body) :
           CaptionSplitAt(opened[k].body[b], ExpectedDuring(k))

\* -------------------------------------------------------------------- C8
\* The cursor positions of the lines consumed as headers.
HeaderPositions ==
    {p \in 0..(Len(all_lines) - 1) :
        \E k \in 2..Len(opened) : opened[k].at <= p /\ p < opened[k].at + opened[k].span}

IsKeptPosition(k) == k \notin HeaderPositions /\ BeforeStop(k)

\* The positions of the lines that are neither header lines nor at or after
\* a stop-boundary line, in input order.
KeptPositions == SelectSeq([k \in 1..Len(all_lines) |-> k - 1], IsKeptPosition)

\* The contents of a section list, concatenated in order.
AllContent(secs) ==
    LET joined[k \in 0..Len(secs)] ==
            IF k = 0 THEN <<>> ELSE joined[k - 1] \o secs[k].content
    IN  joined[Len(secs)]

\* C8: the contents of the returned sections, concatenated in order, are, up
\* to whitespace, the input lines in order without the lines consumed as
\* headers and without everything from a stop-boundary line onward.
C8_ContentConservation ==
    pc = "done" =>
        RemoveChar(AllContent(sections), " ")
            = RemoveChar(JoinLines(all_lines, KeptPositions), " ")

\* -------------------------------------------------------------------- C9
\* Every cursor position of the input, in order.
AllPositions == [k \in 1..Len(all_lines) |-> k - 1]

\* The one section holding every input line under the preamble title.
WholeInputAsPreamble ==
    <<[title |-> PreambleTitle, content |-> JoinLines(all_lines, AllPositions)]>>

\* C9 as stated: an input in which no header is detected gives exactly one
\* section, titled "Preamble/Introduction", holding every input line.
C9_NoHeaderGivesOnePreamble ==
    (pc = "done" /\ Len(opened) = 1) => sections = WholeInputAsPreamble

\* C9 as amended: so it is for every non-empty input in which no header is
\* detected; the empty line list gives the empty section list.
C9_NoHeaderNonEmptyGivesOnePreamble ==
    (pc = "done" /\ Len(opened) = 1) =>
        IF all_lines = <<>> THEN sections = <<>> ELSE sections = WholeInputAsPreamble

\* A scan of two or more lines ended without any header detected.
C9_Witness ==
    /\ pc = "done"
    /\ Len(opened) = 1
    /\ Len(all_lines) >= 2
    /\ Len(sections) = 1

\* ------------------------------------------------------------------- C10
\* The section an opened entry stands for: its title and the lines of its body.
SectionOf(e) == [title |-> e.title, content |-> JoinLines(all_lines, e.body)]

SectionsOf(entries) == [k \in 1..Len(entries) |-> SectionOf(entries[k])]

\* Every section opened before the last one that received content.
ClosedWithBody == WithBody(SubSeq(opened, 1, Len(opened) - 1))

\* The section list holds exactly the opened sections that received content:
\* during the scan those before the current one, at the end all of them.
SectionsMatchOpened ==
    /\ pc = "scan" => /\ sections = SectionsOf(ClosedWithBody)
                      /\ current_section = SectionOf(opened[Len(opened)])
    /\ pc = "done" => sections = SectionsOf(WithBody(opened))

AllNonBlank == \A k \in 1..Len(sections) : Strip(sections[k].content) # <<>>

\* C10: a section joins the list only when a new header is accepted or the
\* scan ends, and only if its content is non-blank; so every section of the
\* list has non-blank content, a header followed at once by another header
\* gives no section, and the empty line list gives the empty list.
LifecycleStep ==
    /\ sections' # sections =>
           /\ Len(opened') = Len(opened) + 1 \/ (pc = "scan" /\ pc' = "done")
           /\ sections' = Append(sections, current_section)
           /\ Strip(current_section.content) # <<>>
    /\ AllNonBlank'
    /\ SectionsMatchOpened'
    /\ (pc' = "done" /\ all_lines = <<>>) => sections' = <<>>

\* C10: every step keeps the section lifecycle.
C10_SectionLifecycle == [][LifecycleStep]_vars

\* A header was followed at once by another header, and the returned list
\* holds a section all the same.
C10_Witness ==
    /\ pc = "done"
    /\ \E k \in 2..(Len(opened) - 1) :
           opened[k].body = <<>> /\ opened[k + 1].at = opened[k].at + opened[k].span
    /\ sections # <<>>

\* ------------------------------------------------------------------- C11
\* The cursor positions from lo to hi, in order.
PositionsFrom(lo, hi) == [j \in 1..(hi - lo + 1) |-> lo + j - 1]

\* The positions of the lines that follow the k-th opened header up to the
\* next accepted header, or to the end of the input.
OwnPositions(k) ==
    PositionsFrom(opened[k].at + opened[k].span,
                  IF k < Len(opened) THEN opened[k + 1].at - 1 ELSE Len(all_lines) - 1)

\* The k-th and the m-th opened section come from mapped headers of one title
\* and both have lines after them.
SameMappedTitleTwice(k, m) ==
    /\ k < m
    /\ opened[k].kind = "mapped" /\ opened[m].kind = "mapped"
    /\ opened[k].title = opened[m].title
    /\ OwnPositions(k) # <<>> /\ OwnPositions(m) # <<>>

\* The returned list holds, at p and later at q, the title with the lines
\* that followed its k-th and its m-th occurrence.
KeptApart(k, m, p, q) ==
    /\ p < q
    /\ sections[p] = [title |-> opened[k].title,
                      content |-> JoinLines(all_lines, OwnPositions(k))]
    /\ sections[q] = [title |-> opened[m].title,
                      content |-> JoinLines(all_lines, OwnPositions(m))]

\* C11: when the same mapped title is detected twice with content after each
\* occurrence, the returned list holds two sections of that title, in
\* encounter order, each with exactly the lines that followed its own header.
C11_RepeatedMappedTitleKeepsBoth ==
    pc = "done" =>
        \A k, m \in 2..Len(opened) :
            SameMappedTitleTwice(k, m) =>
                \E p, q \in 1..Len(sections) : KeptApart(k, m, p, q)

\* "Background:" was detected twice, each time followed by a line, and the
\* list was returned.
C11_Witness ==
    /\ pc = "done"
    /\ \E k, m \in 2..Len(opened) :
           /\ SameMappedTitleTwice(k, m)
           /\ all_lines[opened[k].at + 1] = LnBackground
           /\ all_lines[opened[m].at + 1] = LnBackground

\* ------------------------------------------------------------------- C12
\* The names of the sections that are not reviewed.
SkipNames ==
    {<<"A", "B", "S", "T", "R", "A", "C", "T">>,
     <<"P", "R", "E", "A", "M", "B", "L", "E">>,
     <<"P", "R", "E", "A", "M", "B", "L", "E", "/", "I", "N", "T", "R", "O", "D", "U", "C", "T", "I", "O", "N">>,
     <<"R", "E", "F", "E", "R", "E", "N", "C", "E", "S">>,
     <<"B", "I", "B", "L", "I", "O", "G", "R", "A", "P", "H", "Y">>,
     <<"A", "C", "K", "N", "O", "W", "L", "E", "D", "G", "M", "E", "N", "T">>,
     <<"A", "P", "P", "E", "N", "D", "I", "X">>,
     <<"D", "E", "C", "L", "A", "R", "A", "T", "I", "O", "N">>}

\* A title without its leading "{numeral}. ", if it has one.
WithoutNumeralPrefix(title) ==
    IF IsNumberedTitle(title)
    THEN SubSeq(title, NumeralRun(title) + 3, Len(title))
    ELSE title

\* The title uppercased, or uppercased without its numeral prefix, is a skip
\* name.
NamesSkippedSection(title) ==
    \/ Upper(title) \in SkipNames
    \/ Upper(WithoutNumeralPrefix(title)) \in SkipNames

ReviewReturned == helper.pc = "returned" /\ helper.fn = "generate_section_review"

\* C12: generate_section_review returns None, without a chat-completion call,
\* exactly for the titles that uppercased, or uppercased without a leading
\* "{numeral}. ", are one of the eight skip names; for every other title it
\* makes a call and returns text.
C12_SkippedExactlyForSkipNames ==
    ReviewReturned =>
        /\ (helper.out = None /\ helper.llm_calls = 0) <=> NamesSkippedSection(helper.arg)
        /\ ~NamesSkippedSection(helper.arg) => helper.out # None /\ helper.llm_calls > 0

\* "3. ABSTRACT" was skipped.
C12_Witness ==
    /\ ReviewReturned
    /\ helper.arg = <<"3", ".", " ", "A", "B", "S", "T", "R", "A", "C", "T">>
    /\ helper.out = None

\* ------------------------------------------------------------------- C13
\* The section analysis of the current file has ended.
SectionAnalysisDone == ui.pc = "report" /\ ui.f.decision # "REJECT"

\* A chat-completion call was made for a section of this title.
ReceivedReviewCall(title) == \E k \in 1..Len(ui.f.reviewed) : ui.f.reviewed[k] = title

\* C13: when the first pass does not reject the document, a returned section
\* receives a section-review call exactly when its title is eligible under the
\* exact-match review-skip filter: every eligible section is reviewed, and
\* only the sections whose title is a skip name are not.
C13_SkipFilterAloneDecidesReview ==
    SectionAnalysisDone =>
        \A k \in 1..Len(ui.f.sections) :
            ReceivedReviewCall(ui.f.sections[k]) <=> ~NamesSkippedSection(ui.f.sections[k])

\* ------------------------------------------------------------------- C14
\* s without one trailing colon.
WithoutTrailingColon(s) ==
    IF s # <<>> /\ s[Len(s)] = ":" THEN SubSeq(s, 1, Len(s) - 1) ELSE s

\* The normalization of a line: uppercase, trailing colon stripped, trimmed.
NormalizedTitle(line) == Strip(WithoutTrailingColon(Upper(line)))

\* The line spells the key, up to letter case and one trailing colon.
IsSpellingOf(line, key) == Upper(line) = key \/ Upper(line) = key \o <<":">>

\* The line contains a key and is not a spelling of any key.
MerelyContainsKey(line) ==
    /\ \E key \in DOMAIN HEADER_MAP : Contains(Upper(line), key)
    /\ \A key \in DOMAIN HEADER_MAP : ~IsSpellingOf(line, key)

TitleMapped == helper.pc = "returned" /\ helper.fn = "get_mapped_title"

\* C14: a line is mapped exactly when its normalization (uppercase, trailing
\* colon stripped, trimmed) is a key of the table, and then to that key's
\* title: the spellings of one key that differ in letter case or a trailing
\* colon all give the key's canonical title, and a line that merely contains
\* a key is not mapped.
C14_MappedExactlyWhenNormalizedIsKey ==
    TitleMapped =>
        /\ helper.out = LookupTitle(NormalizedTitle(helper.arg))
        /\ \A key \in DOMAIN HEADER_MAP :
               IsSpellingOf(helper.arg, key) => helper.out = HEADER_MAP[key]
        /\ MerelyContainsKey(helper.arg) => helper.out = None

\* ------------------------------------------------------------------- C15
\* The value of the k-th character of a Roman token, counted negative when it
\* is strictly less than the value of the character to its right.
SignedValue(s, k) ==
    IF k < Len(s) /\ roman_map(s[k]) < roman_map(s[k + 1])
    THEN 0 - roman_map(s[k])
    ELSE roman_map(s[k])

\* The sum of the signed values of the characters of s.
SignedSum(s) ==
    LET sum[k \in 0..Len(s)] == IF k = 0 THEN 0 ELSE sum[k - 1] + SignedValue(s, k)
    IN  sum[Len(s)]

IsRomanToken(s) == s # <<>> /\ \A k \in 1..Len(s) : IsRomanChar(s[k])

\* The resolved value of a token as the resolver is described.
ResolvedAsDescribed(token) ==
    IF IsDigitString(token) THEN <<DecimalValue(token)>>
    ELSE IF IsRomanToken(token) THEN <<SignedSum(Upper(token))>>
    ELSE None

TokenResolved == helper.pc = "returned" /\ helper.fn = "resolve_numeral"

\* C15: a token of decimal digits resolves to its integer value; any other
\* token is decoded as a Roman numeral, case-insensitively, each character
\* subtracted when its value is strictly less than that of the character to
\* its right and added otherwise; the result is None when a character is
\* outside I, V, X, L, C, D, M or the token is empty.
C15_NumeralResolver == TokenResolved => helper.out = ResolvedAsDescribed(helper.arg)

\* ------------------------------------------------------------------- C16
\* The numeral token of the line at the cursor, single-line or bare, if any,
\* resolves to a number: lines 70-73 never meet a token they cannot decode.
TokenAtCursorDecodes ==
    /\ parse_header_components(all_lines[i + 1]).num # None =>
           ResolveNumeral(parse_header_components(all_lines[i + 1]).num) # None
    /\ BareNumeral(all_lines[i + 1]) # None =>
           ResolveNumeral(BareNumeral(all_lines[i + 1])) # None

\* The step took the line at the cursor and the next one as a split-line
\* numbered header.
TookSplitHeader ==
    /\ i + 1 < Len(all_lines)
    /\ BareNumeral(all_lines[i + 1]) # None
    /\ current_section' = [title |-> NumberedTitle(BareNumeral(all_lines[i + 1]),
                                                   all_lines[i + 2]),
                           content |-> <<>>]
    /\ expected_number' = expected_number + 1

\* The number of steps the scan can still take at most: the lines from the
\* cursor on, and the return.
StepsLeft == IF pc = "done" THEN 0 ELSE Len(all_lines) - i + 1

\* A step is defined for the state: inside the loop the iteration takes one
\* of its four branches, at the end of the list the scan returns.
StepDefined ==
    IF InLoop
    THEN KindOf(Classify(all_lines, i, expected_number)) \in
             {"single", "split", "mapped", "content"}
    ELSE i = Len(all_lines)

\* One step of the scan: inside the loop the cursor advances by 1, or by 2
\* for an accepted split-line header, and stays within the list; at the end of
\* the list the scan returns; the number of steps left goes down.
CursorStep ==
    /\ InLoop =>
           /\ i' = i + 1 \/ i' = i + 2
           /\ i' = i + 2 => TookSplitHeader
           /\ i' <= Len(all_lines)
           /\ pc' = "scan"
           /\ TokenAtCursorDecodes
    /\ (pc = "scan" /\ ~InLoop) => (pc' = "done" /\ i' = i)
    /\ StepsLeft' < StepsLeft /\ StepsLeft' >= 0

StopKeywordsOfParser ==
    {<<"R", "E", "F", "E", "R", "E", "N", "C", "E", "S">>,
     <<"B", "I", "B", "L", "I", "O", "G", "R", "A", "P", "H", "Y">>,
     <<"A", "P", "P", "E", "N", "D", "I", "X">>,
     <<"A", "P", "P", "E", "N", "D", "I", "C", "E", "S">>,
     <<"A", "C", "K", "N", "O", "W", "L", "E", "D", "G", "E", "M", "E", "N", "T">>,
     <<"A", "C", "K", "N", "O", "W", "L", "E", "D", "G", "M", "E", "N", "T">>}

IsLetterOrSpace(c) == c \in Range(UpperLetters) \/ IsSpace(c)

\* The line uppercased, with numerals and punctuation stripped.
WithoutNumeralsAndPunctuation(line) == SelectSeq(Upper(line), IsLetterOrSpace)

\* The normalized line matches the keyword and is less than 10 characters
\* longer.
MatchesStopKeyword(normalized, keyword) ==
    Contains(normalized, keyword) /\ Len(normalized) < Len(keyword) + 10

IsParserStopLine(line) ==
    /\ Strip(line) # <<>>
    /\ \E keyword \in StopKeywordsOfParser :
           MatchesStopKeyword(WithoutNumeralsAndPunctuation(line), keyword)

\* The position of the first stop line of the text, one past the last line
\* when there is none.
FirstStopLine ==
    Min({k \in 1..(Len(parser.text_lines) + 1) :
            k = Len(parser.text_lines) + 1 \/ IsParserStopLine(parser.text_lines[k])})

\* The positions of the lines held as content by the returned mapping.
ContentPositions ==
    UNION {Range(parser.final_output[k].lines) : k \in 1..Len(parser.final_output)}

\* The line at position at is the key of a returned section.
IsReturnedKey(at) ==
    \E k \in 1..Len(parser.final_output) :
        parser.final_output[k].title = Strip(parser.text_lines[at])

\* The line at position at appears in the returned mapping, as a key or as
\* content.
Appears(at) == at \in ContentPositions \/ IsReturnedKey(at)

ParserDone == parser.pc = "done"

\* C17: parse_pdf_text stops at the first non-empty line that matches a stop
\* keyword: that line and every later line appear in no section, and no
\* non-empty line before it is dropped.
C17_StopsAtFirstStopLine ==
    ParserDone =>
        /\ \A at \in FirstStopLine..Len(parser.text_lines) : at \notin ContentPositions
        /\ \A at \in 1..(FirstStopLine - 1) :
               Strip(parser.text_lines[at]) # <<>> => Appears(at)

\* ------------------------------------------------------------------- C20
\* The line at position at was met by the loop as a content line: it was read
\* before the loop ended, is not empty and is not a header line.
IsContentLineMet(at) ==
    /\ at <= parser.at
    /\ Strip(parser.text_lines[at]) # <<>>
    /\ ~is_level_1_header(Strip(parser.text_lines[at]))

\* The positions of the header lines before position at.
HeadersBefore(at) ==
    {h \in 1..(at - 1) : is_level_1_header(Strip(parser.text_lines[h]))}

\* The most recent header line seen before position at, PREAMBLE if none.
MostRecentHeader(at) ==
    IF HeadersBefore(at) = {} THEN PreambleKey
    ELSE Strip(parser.text_lines[Max(HeadersBefore(at))])

\* The returned mapping holds the line at position at under the key title.
ReturnedUnder(title, at) ==
    \E k \in 1..Len(parser.final_output) :
        /\ parser.final_output[k].title = title
        /\ at \in Range(parser.final_output[k].lines)

\* C20: every content line met before the stop line is in the mapping
\* parse_pdf_text returns, under the most recent header line seen before it
\* (PREAMBLE if none), also when a header line text occurs more than once.
C20_ContentKeptUnderLatestHeader ==
    ParserDone =>
        \A at \in 1..Len(parser.text_lines) :
            IsContentLineMet(at) => ReturnedUnder(MostRecentHeader(at), at)

\* ------------------------------------------------------------------- C18
\* The files whose iteration of the processing loop has ended.
FilesDone == 0..(ui.i - 1)

\* The file names of a list of result entries, in the order of the list.
FileNames(entries) == [k \in 1..Len(entries) |-> entries[k].filename]

\* names holds the files of the set files, each once, in upload order.
InUploadOrder(names, files) ==
    /\ Range(names) = files
    /\ \A j, k \in 1..Len(names) : j < k => names[j] < names[k]

\* Every result entry carries the PDF report made from its report log.
HasPdfReport(entry) == entry.pdf_bytes = [pdf_of |-> entry.report_text]

UiDone == ui.pc = "done"

\* C18: every file whose iteration ended without an exception has one result
\* entry with a PDF report, in upload order, also when the document yielded
\* zero sections; a file that raised leaves the entries of the other files in
\* place and the loop goes on to the last file; after the loop processing is
\* False and results holds these entries.
C18_BatchRobustness ==
    ui.pc # "off" =>
        /\ InUploadOrder(FileNames(ui.temp_results), FilesDone \ ui.raised)
        /\ \A k \in 1..Len(ui.temp_results) : HasPdfReport(ui.temp_results[k])
        /\ ui.processing = ~UiDone
        /\ UiDone =>
              /\ ui.i = ui.n_files
              /\ ui.results = ui.temp_results
              /\ InUploadOrder(FileNames(ui.results), (0..(ui.n_files - 1)) \ ui.raised)

\* The first of two files raised, the second yielded zero sections and has
\* its entry in results.
C18_Witness ==
    /\ UiDone
    /\ ui.n_files = 2
    /\ ui.raised = {0}
    /\ ui.no_sections = {1}
    /\ FileNames(ui.results) = <<1>>
    /\ HasPdfReport(ui.results[1])

\* ------------------------------------------------------------------- C19
\* The titles of the per-section entries of a report log, which follow its
\* two heading entries.
LoggedTitles(report_log) ==
    [k \in 1..(Len(report_log) - 2) |-> report_log[k + 2].entry]

\* The titles of the saved section_data.
SavedTitles(section_data) == [k \in 1..Len(section_data) |-> section_data[k].title]

\* The members of part are members of whole at increasing positions.
InSameRelativeOrder(part, whole) ==
    \E pos \in [1..Len(part) -> 1..Len(whole)] :
        /\ \A k \in 1..Len(part) : part[k] = whole[pos[k]]
        /\ \A j, k \in 1..Len(part) : j < k => pos[j] < pos[k]

InFileIteration == ui.pc \in {"review", "report"}

\* C19: the per-section entries of a document's report log and its saved
\* section_data name the same sections, in the relative order of the list
\* extract_sections_visual returned, whatever the review calls returned.
C19_ReportFollowsSectionOrder ==
    InFileIteration =>
        /\ LoggedTitles(ui.f.report_log) = SavedTitles(ui.f.file_section_data)
        /\ InSameRelativeOrder(SavedTitles(ui.f.file_section_data), ui.f.sections)

\* Of ABSTRACT, "1. Intro" and "2. Method" the last two are in the report, the
\* first with an error text, the second with a flagged review.
C19_Witness ==
    /\ ui.pc = "report"
    /\ Len(ui.f.sections) = 3
    /\ SavedTitles(ui.f.file_section_data) = SubSeq(ui.f.sections, 2, 3)
    /\ LoggedTitles(ui.f.report_log) = SubSeq(ui.f.sections, 2, 3)
    /\ ui.f.file_section_data[1].content = "AI Error: timeout"
    /\ IsFlagged(ui.f.file_section_data[2].content)

\* ------------------------------------------------------------------- C21
\* The text is what a failed call returns: "AI Error: " and the exception.
IsAiError(text) == text = "AI Error: timeout"

\* The feedback texts the review loop kept for the current file.
Feedbacks == [k \in 1..Len(ui.f.file_section_data) |-> ui.f.file_section_data[k].content]

SomeFeedbackFlagged == \E k \in 1..Len(Feedbacks) : IsFlagged(Feedbacks[k])

\* The first-pass call or a section-review call of the current file failed.
SomeCallFailed ==
    \/ IsAiError(ui.f.first_pass_result)
    \/ \E k \in 1..Len(Feedbacks) : IsAiError(Feedbacks[k])

\* The decision of the current file has been made.
Decided == ui.pc = "report"

\* The decision is REJECT exactly for a first pass with "REJECT", and then no
\* review call was made; otherwise it is "Accept w/ Suggestions" exactly when
\* a feedback is flagged, and "Accept" in every other case.
DecisionRule ==
    /\ ui.f.decision = "REJECT" <=> HasReject(ui.f.first_pass_result)
    /\ HasReject(ui.f.first_pass_result) => ui.f.reviewed = <<>>
    /\ ~HasReject(ui.f.first_pass_result) =>
           /\ ui.f.decision = "Accept w/ Suggestions" <=> SomeFeedbackFlagged
           /\ ~SomeFeedbackFlagged => ui.f.decision = "Accept"

\* C21: the decision of a document follows the rule above, so that a document
\* is never given "Accept" when its first-pass call or one of its
\* section-review calls failed and returned an "AI Error" text.
C21_DecisionNeverAcceptsFailedCall ==
    Decided =>
        /\ DecisionRule
        /\ ui.f.decision = "Accept" => ~SomeCallFailed

====
